---- MODULE Spec2Model ----
(***************************************************************************)
(* Model of nyra_bot.py: a command bot built on discord.ext.commands.      *)
(*                                                                         *)
(* The module body of nyra_bot.py constructs the bot (line 7), registers   *)
(* the on_ready hook and the three commands (lines 10-45) and calls        *)
(* bot.run (line 49).  Once a session exists the library delivers inbound  *)
(* messages; each one is parsed against command_prefix, the command word   *)
(* is looked up in the command table, the arguments are converted and the  *)
(* handler coroutine runs up to its single await (ctx.send), where it is   *)
(* suspended until the transport has taken the message.  Several handler   *)
(* coroutines can be suspended at their send at the same time.             *)
(*                                                                         *)
(* Text is written in ASCII: a code point outside ASCII is written         *)
(* <U+XXXX>.  Message contents and command names are sequences of          *)
(* one-character strings so that prefix and word matching are computed.    *)
(***************************************************************************)
EXTENDS Integers, Sequences, FiniteSets, Bags, TLC

VARIABLES pc, token, commands, stdout, inbox, tasks, outbox

vars == <<pc, token, commands, stdout, inbox, tasks, outbox>>

\* Number of inbound messages the transport delivers in one run.
MaxMessages == 2

None == "None"

\* Guild members (their ids) and the channels the bot can read.
Users == {"1", "2"}
Channels == {"a", "b"}

\* ------------------------------------------------------------------ text

Space == " "

\* command_prefix="lunaria!"
command_prefix == <<"l", "u", "n", "a", "r", "i", "a", "!">>

\* The names of the registered coroutines (the default name of a command).
wisdom_name == <<"w", "i", "s", "d", "o", "m">>
welcome_name == <<"w", "e", "l", "c", "o", "m", "e">>
help_name == <<"h", "e", "l", "p">>

\* str.startswith
StartsWith(s, p) == Len(s) >= Len(p) /\ SubSeq(s, 1, Len(p)) = p

\* s[n:]
Drop(s, n) == SubSeq(s, n + 1, Len(s))

\* StringView.get_word: the characters up to the first whitespace.
get_word(s) ==
    LET k == CHOOSE n \in 0..Len(s) :
                 /\ \A i \in 1..n : s[i] # Space
                 /\ (n = Len(s) \/ s[n + 1] = Space)
    IN  SubSeq(s, 1, k)

\* StringView.skip_ws: drop the leading whitespace.
skip_ws(s) ==
    LET k == CHOOSE n \in 0..Len(s) :
                 /\ \A i \in 1..n : s[i] = Space
                 /\ (n = Len(s) \/ s[n + 1] # Space)
    IN  Drop(s, k)

\* member.mention as it is written in an inbound message, and as a string.
MentionChars(u) == <<"<", "@", u, ">">>
mention(u) == "<@" \o u \o ">"

\* ------------------------------------------------------- command table

\* help_command=None at line 7: the library installs no help command.
help_command_default == "DefaultHelpCommand"

help_command == None

EmptyTable == [n \in {} |-> None]

\* commands.Bot(...): the table right after construction.
BotCommands ==
    IF help_command = None
    THEN EmptyTable
    ELSE [n \in {help_name} |-> "library_help"]

\* add_command: bind the name to the handler.
add_command(tbl, name, handler) ==
    [n \in DOMAIN tbl \cup {name} |-> IF n = name THEN handler ELSE tbl[n]]

\* all_commands.get(invoker): exact match on the whole word.
LookupByPrefix(tbl, invoker) ==
    LET hit == {n \in DOMAIN tbl : StartsWith(invoker, n)}
    IN  IF hit = {} THEN None ELSE tbl[CHOOSE n \in hit : TRUE]

Lookup(tbl, invoker) ==
    IF invoker \in DOMAIN tbl THEN tbl[invoker] ELSE None

\* --------------------------------------------------------------- dispatch

\* MemberConverter on one argument word: the member it mentions, if any.
MemberConverter(arg) ==
    IF \E u \in Users : arg = MentionChars(u)
    THEN CHOOSE u \in Users : arg = MentionChars(u)
    ELSE "MemberNotFound"

\* get_context on a message text: whether it carries the prefix, the word
\* after the prefix (invoked_with) and the first argument word after it.
get_context(content) ==
    IF ~StartsWith(content, command_prefix)
    THEN [prefixed |-> FALSE, invoked_with |-> <<>>, arg |-> <<>>]
    ELSE LET view == Drop(content, Len(command_prefix))
             invoker == get_word(view)
         IN  [ prefixed |-> TRUE, invoked_with |-> invoker,
               arg |-> get_word(skip_ws(Drop(view, Len(invoker)))) ]

\* The outcome of process_commands on a parsed message under table tbl:
\* the handler to call (None when no handler is called) and the converted
\* member argument of welcome (None when the argument is absent).
Invoke(tbl, c) ==
    LET handler == IF c.prefixed THEN Lookup(tbl, c.invoked_with) ELSE None
        member == IF c.arg = <<>> THEN None ELSE MemberConverter(c.arg)
    IN  IF handler = "welcome"
        THEN IF member = "MemberNotFound"
             THEN [handler |-> None, member |-> None]
             ELSE [handler |-> handler, member |-> member]
        ELSE [handler |-> handler, member |-> None]

\* The message texts the environment sends.
Contents ==
    { command_prefix \o wisdom_name,
      command_prefix \o wisdom_name \o <<"X">>,
      wisdom_name,
      command_prefix \o welcome_name,
      command_prefix \o welcome_name \o <<Space>> \o MentionChars("1"),
      command_prefix \o welcome_name \o <<Space, "z", "z">>,
      command_prefix \o help_name }

Messages == [content : Contents, author : Users, channel : Channels]

\* The parse of each message text.
Context == [c \in Contents |-> get_context(c)]

Dispatch(tbl, content) == Invoke(tbl, Context[content])

\* --------------------------------------------------------------- payloads

\* ctx.send(content) and ctx.send(embed=embed)
Text(s) == [kind |-> "text", content |-> s]
Embed(e) == [kind |-> "embed", embed |-> e]

\* wisdom, lines 17-23
lines ==
    << "Even void can return something.",
       "All data is a spell waiting to be cast.",
       "Modules are fragments of the soul, split but eternal.",
       "Syntax isn't written <U+2014> it's conjured.",
       "The REPL is your cauldron; stir it wisely." >>

\* random.choice(seq): any element of the sequence.
random_choice(seq) == {seq[i] : i \in 1..Len(seq)}

\* f"<U+1F52E> {line}", line 24
WisdomTextBare(line) == line

WisdomText(line) == "<U+1F52E> " \o line

\* member = member or ctx.author, line 29
TargetAlwaysMember(member, author) == member

TargetAlwaysAuthor(member, author) == author

Target(member, author) == IF member = None THEN author ELSE member

welcome_color == 10392063   \* 0x9e91ff
help_color == 11187967      \* 0xaab6ff

\* welcome, lines 30-35; the description is the sequence of the parts of the
\* f-string.
WelcomeEmbedCounting(member) ==
    [ title |-> "<U+1F319> A new star rises...",
      description |-> << "Welcome to **Lunaria**, ", mention(member),
                         "!\nLet the code guide you through the void." >>,
      color |-> welcome_color + Len(inbox),
      footer |-> "Nyra, Guardian of the Grimoire",
      fields |-> <<>> ]

WelcomeEmbed(member) ==
    [ title |-> "<U+1F319> A new star rises...",
      description |-> << "Welcome to **Lunaria**, ", mention(member),
                         "!\nLet the code guide you through the void." >>,
      color |-> welcome_color,
      footer |-> "Nyra, Guardian of the Grimoire",
      fields |-> <<>> ]

\* help, lines 42-43: the fields in the order add_field appends them.
HelpFieldsSwapped ==
    << [ name |-> "lunaria!welcome [@user]",
         value |-> "Manually invoke the welcome ritual.", inline |-> FALSE ],
       [ name |-> "lunaria!wisdom",
         value |-> "Receive a cryptic line of code-sorcery.", inline |-> FALSE ] >>

HelpFields ==
    << [ name |-> "lunaria!wisdom",
         value |-> "Receive a cryptic line of code-sorcery.", inline |-> FALSE ],
       [ name |-> "lunaria!welcome [@user]",
         value |-> "Manually invoke the welcome ritual.", inline |-> FALSE ] >>

\* help, lines 41-44
HelpEmbed ==
    [ title |-> "<U+1F4DC> Nyra's Grimoire of Commands",
      description |-> <<>>,
      color |-> help_color,
      footer |-> "More spells soon to be discovered...",
      fields |-> HelpFields ]

\* ------------------------------------------------------------------- send

\* ctx.send goes to ctx.channel.
DestinationLatest(ctx) == inbox[Len(inbox)].channel

Destination(ctx) == ctx.channel

\* One call of ctx.send puts one message on the wire; the wire is the bag of
\* the messages the transport was handed.
SendTwice(box, entry) == box (+) SetToBag({entry}) (+) SetToBag({entry})

Send(box, entry) == box (+) SetToBag({entry})

\* bot.run() at line 49: run has a required positional parameter, token.
RunIgnoringToken(tok) == "running"

RunOutcome(tok) == IF tok = None THEN "failed" ELSE "running"

\* ------------------------------------------------------------------ state

TypeOK ==
    /\ pc \in {"def_wisdom", "def_welcome", "def_help", "run", "failed", "running"}
    /\ token \in {None, "token"}
    /\ Len(stdout) <= 1
    /\ Len(inbox) <= MaxMessages
    /\ Len(tasks) <= Len(inbox)

\* The state after line 12.  Line 49 as given passes no token; line 48 tells
\* the operator to put the real token there, so both are initial states.
Init ==
    /\ pc = "def_wisdom"
    /\ token \in {None, "token"}
    /\ commands = BotCommands
    /\ stdout = <<>>
    /\ inbox = <<>>
    /\ tasks = <<>>
    /\ outbox = EmptyBag

\* @bot.command() on a coroutine: add_command raises when the name is taken,
\* which ends the process.
Register(at, name, handler, next) ==
    /\ pc = at
    /\ IF name \in DOMAIN commands
       THEN pc' = "failed" /\ UNCHANGED commands
       ELSE pc' = next /\ commands' = add_command(commands, name, handler)
    /\ UNCHANGED <<token, stdout, inbox, tasks, outbox>>

def_wisdom == Register("def_wisdom", wisdom_name, "wisdom", "def_welcome")
def_welcome == Register("def_welcome", welcome_name, "welcome", "def_help")
def_help == Register("def_help", help_name, "help", "run")

\* bot.run(), line 49
run ==
    /\ pc = "run"
    /\ pc' = RunOutcome(token)
    /\ UNCHANGED <<token, commands, stdout, inbox, tasks, outbox>>

\* on_ready, lines 11-12: one log line once the session is established.
on_ready ==
    /\ pc = "running"
    /\ stdout = <<>>
    /\ stdout' = <<"<U+1F311> Nyra has awakened... Connected as Nyra">>
    /\ UNCHANGED <<pc, token, commands, inbox, tasks, outbox>>

\* A handler coroutine from its call to its await: it has built the payload
\* and is suspended in ctx.send.
Start(m, handler, member, payload) ==
    /\ inbox' = Append(inbox, m)
    /\ tasks' = Append(tasks,
           [ msg |-> Len(inbox) + 1,
             handler |-> handler,
             ctx |-> [author |-> m.author, channel |-> m.channel],
             member |-> member,
             payload |-> payload,
             at |-> "send" ])
    /\ UNCHANGED <<pc, token, commands, stdout, outbox>>

Receivable(m) == pc = "running" /\ Len(inbox) < MaxMessages

\* A message that reaches no handler: no prefix, no such command, or an
\* argument that converts to no member.
ignore(m) ==
    /\ Receivable(m)
    /\ Dispatch(commands, m.content).handler = None
    /\ inbox' = Append(inbox, m)
    /\ UNCHANGED <<pc, token, commands, stdout, tasks, outbox>>

\* wisdom, lines 16-24
wisdom(m) ==
    /\ Receivable(m)
    /\ Dispatch(commands, m.content).handler = "wisdom"
    /\ \E line \in random_choice(lines) :
           Start(m, "wisdom", None, Text(WisdomText(line)))

\* welcome, lines 28-36
welcome(m) ==
    /\ Receivable(m)
    /\ Dispatch(commands, m.content).handler = "welcome"
    /\ LET member == Target(Dispatch(commands, m.content).member, m.author)
       IN  Start(m, "welcome", member, Embed(WelcomeEmbed(member)))

\* help, lines 40-45
help(m) ==
    /\ Receivable(m)
    /\ Dispatch(commands, m.content).handler = "help"
    /\ Start(m, "help", None, Embed(HelpEmbed))

\* The await of ctx.send returns: the message is on the wire and the
\* coroutine ends.
deliver(k) ==
    /\ tasks[k].at = "send"
    /\ outbox' = Send(outbox, [ to |-> Destination(tasks[k].ctx),
                                payload |-> tasks[k].payload,
                                re |-> tasks[k].msg ])
    /\ tasks' = [tasks EXCEPT ![k].at = "done"]
    /\ UNCHANGED <<pc, token, commands, stdout, inbox>>

Next ==
    \/ def_wisdom
    \/ def_welcome
    \/ def_help
    \/ run
    \/ on_ready
    \/ \E m \in Messages : ignore(m)
    \/ \E m \in Messages : wisdom(m)
    \/ \E m \in Messages : welcome(m)
    \/ \E m \in Messages : help(m)
    \/ \E k \in 1..Len(tasks) : deliver(k)

Spec == Init /\ [][Next]_vars

\* ----------------------------------------------------------- properties

\* The messages on the wire, and those that answer inbound message i.
Sent == BagToSet(outbox)
Answers(i) == {e \in Sent : e.re = i}
Copies(i) == IF Answers(i) = {} THEN 0
             ELSE LET e == CHOOSE x \in Answers(i) : TRUE
                  IN  IF Cardinality(Answers(i)) = 1 THEN CopiesIn(e, outbox) ELSE 2

Contains(description, s) == \E i \in 1..Len(description) : description[i] = s

WisdomMsg == command_prefix \o wisdom_name
WelcomeMsg == command_prefix \o welcome_name
WelcomeTo(u) == command_prefix \o welcome_name \o <<Space>> \o MentionChars(u)
HelpMsg == command_prefix \o help_name

FiveQuotes ==
    { "Even void can return something.",
      "All data is a spell waiting to be cast.",
      "Modules are fragments of the soul, split but eternal.",
      "Syntax isn't written <U+2014> it's conjured.",
      "The REPL is your cauldron; stir it wisely." }

\* A wisdom invocation that answers with quote q.
WisdomYields(q) ==
    \E m \in Messages :
        /\ wisdom(m)
        /\ tasks'[Len(tasks')].payload = Text("<U+1F52E> " \o q)

\* C1: every response to a wisdom command, whatever ran before it, is plain
\* text made of the glyph, a space and one of the five quotes; and whenever a
\* message can be received, each of the five quotes is a possible response
\* of a wisdom invocation.
C1_WisdomResponses ==
    /\ \A e \in Sent :
           inbox[e.re].content = WisdomMsg =>
               /\ e.payload.kind = "text"
               /\ \E q \in FiveQuotes : e.payload.content = "<U+1F52E> " \o q
    /\ (pc = "running" /\ Len(inbox) < MaxMessages) =>
           \A q \in FiveQuotes : ENABLED WisdomYields(q)

\* Two wisdom responses are on the wire, one with the first and one with the
\* last quote of the list.
C1_Witness ==
    /\ \E e \in Sent :
           /\ inbox[e.re].content = WisdomMsg
           /\ e.payload.kind = "text"
           /\ e.payload.content = "<U+1F52E> Even void can return something."
    /\ \E e \in Sent :
           /\ inbox[e.re].content = WisdomMsg
           /\ e.payload.kind = "text"
           /\ e.payload.content =
                  "<U+1F52E> The REPL is your cauldron; stir it wisely."

\* C2: the response to a welcome command without a target is an embed whose
\* description contains the mention of the invoking user.
C2_WelcomeDefaultsToInvoker ==
    \A e \in Sent :
        inbox[e.re].content = WelcomeMsg =>
            /\ e.payload.kind = "embed"
            /\ Contains(e.payload.embed.description, mention(inbox[e.re].author))

\* Each of the two users has been answered for a welcome without a target.
C2_Witness ==
    \A u \in Users :
        \E e \in Sent :
            inbox[e.re].content = WelcomeMsg /\ inbox[e.re].author = u

\* C3 as stated: the response to a welcome command with an explicit target
\* contains the mention of the target and not the mention of the invoker, for
\* every pair of invoker and target.
C3_AsStated ==
    \A e \in Sent : \A t \in Users :
        inbox[e.re].content = WelcomeTo(t) =>
            /\ e.payload.kind = "embed"
            /\ Contains(e.payload.embed.description, mention(t))
            /\ ~Contains(e.payload.embed.description, mention(inbox[e.re].author))

\* C3 amended: the response to a welcome command with an explicit target
\* contains the mention of the target, and does not contain the mention of
\* the invoker when the invoker is another user than the target.
C3_WelcomeExplicitTarget ==
    \A e \in Sent : \A t \in Users :
        inbox[e.re].content = WelcomeTo(t) =>
            /\ e.payload.kind = "embed"
            /\ Contains(e.payload.embed.description, mention(t))
            /\ inbox[e.re].author # t =>
                   ~Contains(e.payload.embed.description,
                             mention(inbox[e.re].author))

\* A welcome with an explicit target other than its invoker has been answered.
C3_Witness ==
    \E e \in Sent : \E t \in Users :
        inbox[e.re].content = WelcomeTo(t) /\ inbox[e.re].author # t

\* C4: every response to a help command is an embed with exactly two fields,
\* named lunaria!wisdom and lunaria!welcome [@user], in that order.
C4_HelpListsTwoCommands ==
    \A e \in Sent :
        inbox[e.re].content = HelpMsg =>
            /\ e.payload.kind = "embed"
            /\ Len(e.payload.embed.fields) = 2
            /\ e.payload.embed.fields[1].name = "lunaria!wisdom"
            /\ e.payload.embed.fields[2].name = "lunaria!welcome [@user]"

\* A help command received after another command has been answered.
C4_Witness ==
    \E e \in Sent : inbox[e.re].content = HelpMsg /\ e.re > 1

RegisteredNames == {wisdom_name, welcome_name, help_name}

\* The text is the prefix, a registered name, and then nothing or a space.
NamesCommand(content, n) ==
    \/ content = command_prefix \o n
    \/ StartsWith(content, command_prefix \o n \o <<Space>>)

\* C5: a handler runs for a message only if the message is the prefix
\* followed by exactly a registered name, and it is the handler of that name;
\* lunaria!wisdomX and wisdom without the prefix start no handler and get no
\* response.
C5_ExactPrefixedMatch ==
    /\ \A k \in 1..Len(tasks) :
           \E n \in RegisteredNames :
               /\ NamesCommand(inbox[tasks[k].msg].content, n)
               /\ n = wisdom_name => tasks[k].handler = "wisdom"
               /\ n = welcome_name => tasks[k].handler = "welcome"
               /\ n = help_name => tasks[k].handler = "help"
    /\ \A i \in 1..Len(inbox) :
           inbox[i].content \in {WisdomMsg \o <<"X">>, wisdom_name} =>
               /\ \A k \in 1..Len(tasks) : tasks[k].msg # i
               /\ Answers(i) = {}

\* Both near misses have been received.
C5_Witness ==
    /\ \E i \in 1..Len(inbox) : inbox[i].content = WisdomMsg \o <<"X">>
    /\ \E i \in 1..Len(inbox) : inbox[i].content = wisdom_name

C7_NoTokenFailsAtStartup ==
    token = None =>
        /\ pc \in {"def_wisdom", "def_welcome", "def_help", "run", "failed"}
        /\ stdout = <<>>
        /\ inbox = <<>>
        /\ tasks = <<>>
        /\ outbox = EmptyBag

\* The process started without a token has failed.
C7_Witness == token = None /\ pc = "failed"

OwnHandler(n) ==
    IF n = wisdom_name THEN "wisdom"
    ELSE IF n = welcome_name THEN "welcome"
    ELSE IF n = help_name THEN "help"
    ELSE "no handler of this program"

\* C8: every name in the command table is bound to this program's handler
\* of that name, and from the end of registration on the table holds exactly
\* wisdom, welcome and help, whatever handlers and on_ready have run.
C8_CommandTableFixed ==
    /\ \A n \in DOMAIN commands : commands[n] = OwnHandler(n)
    /\ pc \in {"run", "running", "failed"} =>
           /\ DOMAIN commands = RegisteredNames
           /\ Cardinality(DOMAIN commands) = 3

\* on_ready has fired and a handler has completed.
C8_Witness ==
    /\ stdout # <<>>
    /\ \E k \in 1..Len(tasks) : tasks[k].at = "done"
    /\ DOMAIN commands = RegisteredNames

SameInput(j, k) ==
    /\ tasks[j].handler = tasks[k].handler
    /\ inbox[tasks[j].msg].content = inbox[tasks[k].msg].content
    /\ inbox[tasks[j].msg].author = inbox[tasks[k].msg].author

\* C9 as stated: two invocations of the same handler with the same invoker
\* and the same target produce the same response.
C9_AsStated ==
    \A j, k \in 1..Len(tasks) :
        SameInput(j, k) => tasks[j].payload = tasks[k].payload

\* C9 amended: two invocations of welcome, or of help, with the same invoker
\* and the same target produce the same response, whatever ran in between.
C9_WelcomeHelpDeterministic ==
    \A j, k \in 1..Len(tasks) :
        (SameInput(j, k) /\ tasks[j].handler \in {"welcome", "help"}) =>
            tasks[j].payload = tasks[k].payload

\* Two welcome invocations with the same input, in different channels.
C9_Witness ==
    \E j, k \in 1..Len(tasks) :
        /\ j # k
        /\ SameInput(j, k)
        /\ tasks[j].handler = "welcome"
        /\ tasks[j].ctx.channel # tasks[k].ctx.channel

\* The user a welcome message is about: its explicit target, else its author.
Welcomed(m) ==
    IF \E t \in Users : m.content = WelcomeTo(t)
    THEN CHOOSE t \in Users : m.content = WelcomeTo(t)
    ELSE m.author

\* C10: every message on the wire is in the channel of the command it
\* answers and carries the payload built by that invocation; a welcome
\* response mentions the user of its own invocation and no other user.
C10_ResponsesNotCrossed ==
    \A e \in Sent :
        /\ e.to = inbox[e.re].channel
        /\ \E k \in 1..Len(tasks) :
               /\ tasks[k].msg = e.re
               /\ tasks[k].payload = e.payload
               /\ tasks[k].handler = "welcome" =>
                      \A u \in Users :
                          Contains(e.payload.embed.description, mention(u))
                              <=> u = Welcomed(inbox[e.re])

\* Two welcome invocations from different channels about different users
\* were suspended together, and the later one was answered first.
C10_Witness ==
    \E j, k \in 1..Len(tasks) :
        /\ j < k
        /\ tasks[j].handler = "welcome" /\ tasks[k].handler = "welcome"
        /\ tasks[j].ctx.channel # tasks[k].ctx.channel
        /\ tasks[j].member # tasks[k].member
        /\ tasks[j].at = "send" /\ tasks[k].at = "done"

====
